---- MODULE Spec2Model ----
(***************************************************************************)
(* Jbeil self-supervised training driver (train_self_supervised.py) as a   *)
(* state machine: the inductive-node selection and filtering of the        *)
(* training split, then for every run the epoch loop (memory init,         *)
(* batches in gradient-accumulation groups, detach, backup / restore       *)
(* around the two validation phases, results dump, early stopping and      *)
(* checkpoints), the unseen-node test and the final save.                   *)
(*                                                                         *)
(* The collaborators that are not part of the driver (node memory, early   *)
(* stop monitor, evaluator, neighbor finder) are modelled from their       *)
(* documented contracts.  What the network computes is abstracted: every   *)
(* forward pass that touches the memory stamps it with a fresh number, so  *)
(* two memories are equal only when one is a copy of the other.            *)
(***************************************************************************)
EXTENDS Integers, Sequences, FiniteSets, TLC

VARIABLES
  args,                 \* parsed command line (never changes)
  pc,                   \* position of the script
  err,                  \* exception that ended the script, "" when none
  inductive_nodes,      \* result of compute_inductive_nodes
  train_data,           \* training split (five parallel arrays)
  i,                    \* run index
  results_path,         \* results file of the current run
  tgn,                  \* model: parameters, mode, bound neighbor finders
  memory,               \* tgn.memory: node memory and pending messages
  grad_depth,           \* batches the autograd history of the memory spans
  clock,                \* number of forward passes that touched a memory
  epoch, k, j,          \* loop counters
  m_loss,               \* losses of the groups of the current epoch
  val_aps, new_nodes_val_aps, train_losses, epoch_times, total_epoch_times,
  early_stopper,        \* EarlyStopMonitor
  val_ap,               \* seen-node validation AP of the current epoch
  thresholdOpt,         \* last threshold an evaluation returned
  train_memory_backup, val_memory_backup,
  checkpoints,          \* ./saved_checkpoints, by epoch number
  results_files,        \* ./results, by path
  model_file,           \* MODEL_SAVE_PATH
  mem_ops,              \* history: memory operations of the current epoch
  batches,              \* history: [start, end) of the batches of the epoch
  made,                 \* history: snapshots backup_memory returned, this run
  restored,             \* history: snapshots given to restore_memory, this run
  snap_src,             \* history: live memory when each backup was taken
  ckpt_writes,          \* history: checkpoint paths written, this run
  fed, rets,            \* history: metrics fed to the monitor and its answers
  train_ops,            \* history: optimizer and batch steps of the current epoch
  sampler_uses,         \* history: which sampler each phase of each run drew from
  file_writes           \* history: which run wrote which file

vars == <<args, pc, err, inductive_nodes, train_data, i, results_path, tgn,
          memory, grad_depth, clock, epoch, k, j, m_loss, val_aps,
          new_nodes_val_aps, train_losses, epoch_times, total_epoch_times,
          early_stopper, val_ap, thresholdOpt, train_memory_backup,
          val_memory_backup, checkpoints, results_files, model_file,
          mem_ops, batches, made, restored, snap_src, ckpt_writes,
          fed, rets, train_ops, sampler_uses, file_writes>>

dataV == <<inductive_nodes, train_data>>
runV == <<i, results_path>>
modelV == <<tgn, memory, grad_depth, clock>>
loopV == <<epoch, k, j, m_loss>>
seriesV == <<val_aps, new_nodes_val_aps, train_losses, epoch_times,
             total_epoch_times>>
evalV == <<early_stopper, val_ap, thresholdOpt>>
snapV == <<train_memory_backup, val_memory_backup>>
diskV == <<checkpoints, results_files, model_file>>
histV == <<mem_ops, batches, made, restored, snap_src, ckpt_writes>>
monV == <<fed, rets>>
ioV == <<sampler_uses, file_writes>>

(***************************************************************************)
(* Bounds of the model.                                                    *)
(***************************************************************************)
MaxEpoch == 2
MaxPatience == 2
MaxBatchSize == 2
MaxBackprop == 2
MaxAP == 2
MonMaxCalls == 4
MonMaxAP == 4
MonMaxPatience == 3

Min(a, b) == IF a < b THEN a ELSE b

Range(s) == {s[x] : x \in DOMAIN s}

(***************************************************************************)
(* Command line.  --exp has no default: absent, args.exp is Python's None  *)
(* ("absent"), which is not the string "None".                             *)
(***************************************************************************)
RunCounts == {1, 2}

ResultPaths == {n - 1 : n \in RunCounts}

ExpTags == {"absent", "None", "Exp1", "Exp2", "Exp3", "Exp4"}

Args == [exp : ExpTags,
         bs : 1..MaxBatchSize,
         n_epoch : 0..MaxEpoch,
         patience : 0..MaxPatience,
         n_runs : RunCounts,
         backprop_every : 1..MaxBackprop,
         use_memory : BOOLEAN]

BATCH_SIZE == args.bs
NUM_EPOCH == args.n_epoch
USE_MEMORY == args.use_memory

(***************************************************************************)
(* Data set constants, scaled down: ids 1..nb_nodes-1, one malicious node. *)
(***************************************************************************)
nb_nodes == 5

malicious_src_nodes == <<2>>

\* get_data: the training split before the inductive filter.
TrainSplit ==
  [sources      |-> <<3, 3, 4, 2, 1>>,
   destinations |-> <<4, 1, 3, 3, 3>>,
   timestamps   |-> <<1, 2, 2, 3, 4>>,
   labels       |-> <<0, 0, 1, 0, 0>>,
   edge_idxs    |-> <<1, 2, 3, 4, 5>>]

(***************************************************************************)
(* compute_inductive_nodes                                                 *)
(***************************************************************************)
\* random.sample(population, n): every sequence of n distinct elements.
RandomSamples(population, n) ==
  {s \in [1..n -> population] : \A a, b \in 1..n : a # b => s[a] # s[b]}

\* int(nb_nodes * 0.3) and int(nb_nodes * 0.5)
Percent(exp) == IF exp = "Exp3" THEN (nb_nodes * 5) \div 10
                                ELSE (nb_nodes * 3) \div 10

\* sample[: len(malicious_src_nodes)] = torch.tensor(malicious_src_nodes)
OverwriteHead(sample, mal) ==
  [x \in 1..Len(sample) |-> IF x <= Len(mal) THEN mal[x] ELSE sample[x]]

\* The slice assignment needs the slice and the value to have one shape
\* (a value of one element broadcasts).
SliceAssignOk(sample, mal) ==
  Len(mal) <= Len(sample) \/ Len(mal) = 1

NoneValue == [is_none |-> TRUE, data |-> <<>>]

Tensor(s) == [is_none |-> FALSE, data |-> s]

Available(exp) ==
  IF exp = "Exp1" THEN (1..(nb_nodes - 1)) \ Range(malicious_src_nodes)
                  ELSE 1..(nb_nodes - 1)

Crash(e) == pc' = "crashed" /\ err' = e

\* Faulty variant: every tag other than "None" selects nodes.
SelectingTagsAnyOther == ExpTags \ {"None"}

\* The tags of the elif chain that draw a sample.
SelectingTags == {"Exp1", "Exp2", "Exp3"}

compute_inductive_nodes ==
  /\ pc = "compute_inductive_nodes"
  /\ IF args.exp = "None"
       THEN /\ inductive_nodes' = NoneValue
            /\ pc' = "apply_inductive_experiment"
            /\ err' = err
       ELSE IF args.exp \in SelectingTags
         THEN IF Percent(args.exp) > Cardinality(Available(args.exp))
                THEN Crash("ValueError: sample larger than population")
                     /\ UNCHANGED inductive_nodes
                ELSE \E sample \in RandomSamples(Available(args.exp),
                                                 Percent(args.exp)) :
                       IF args.exp = "Exp1"
                         THEN /\ inductive_nodes' = Tensor(sample)
                              /\ pc' = "apply_inductive_experiment"
                              /\ err' = err
                         ELSE IF SliceAssignOk(sample, malicious_src_nodes)
                           THEN /\ inductive_nodes' =
                                     Tensor(OverwriteHead(sample,
                                                          malicious_src_nodes))
                                /\ pc' = "apply_inductive_experiment"
                                /\ err' = err
                           ELSE Crash("RuntimeError: shape mismatch")
                                /\ UNCHANGED inductive_nodes
         ELSE Crash("ValueError: Invalid experiment name.")
              /\ UNCHANGED inductive_nodes
  /\ UNCHANGED <<args, train_ops, ioV, train_data, runV, modelV, loopV,
                 seriesV, evalV, snapV, diskV, histV, monV>>

(***************************************************************************)
(* apply_inductive_experiment                                              *)
(***************************************************************************)
\* Faulty variant: only the sources are compared with the sample.
MaskSourcesOnly(data, sample) ==
  [e \in 1..Len(data.sources) |->
     \E x \in 1..Len(sample) : data.sources[e] = sample[x]]

\* (sources.unsqueeze(1) == sample).any(1) | (destinations ... ).any(1)
Mask(data, sample) ==
  [e \in 1..Len(data.sources) |->
     \/ \E x \in 1..Len(sample) : data.sources[e] = sample[x]
     \/ \E x \in 1..Len(sample) : data.destinations[e] = sample[x]]

\* arr[keep_edges]: the elements of arr at the positions the mask keeps.
RECURSIVE BoolIndex(_, _)
BoolIndex(arr, keep) ==
  IF Len(arr) = 0 THEN <<>>
  ELSE IF keep[Len(arr)]
         THEN Append(BoolIndex(SubSeq(arr, 1, Len(arr) - 1), keep),
                     arr[Len(arr)])
         ELSE BoolIndex(SubSeq(arr, 1, Len(arr) - 1), keep)

Filtered(data, sample) ==
  LET mask == Mask(data, sample)
      keep_edges == [e \in DOMAIN mask |-> ~mask[e]]
  IN [sources      |-> BoolIndex(data.sources, keep_edges),
      destinations |-> BoolIndex(data.destinations, keep_edges),
      timestamps   |-> BoolIndex(data.timestamps, keep_edges),
      labels       |-> BoolIndex(data.labels, keep_edges),
      edge_idxs    |-> BoolIndex(data.edge_idxs, keep_edges)]

\* With sample = None the comparison tensor == None is the bool False, and
\* False.any(1) raises AttributeError.
apply_inductive_experiment ==
  /\ pc = "apply_inductive_experiment"
  /\ IF inductive_nodes.is_none
       THEN Crash("AttributeError: 'bool' object has no attribute 'any'")
            /\ UNCHANGED train_data
       ELSE /\ train_data' = Filtered(train_data, inductive_nodes.data)
            /\ pc' = "get_neighbor_finder"
            /\ err' = err
  /\ UNCHANGED <<args, train_ops, ioV, inductive_nodes, runV, modelV, loopV,
                 seriesV, evalV, snapV, diskV, histV, monV>>

\* get_neighbor_finder(train_data), get_neighbor_finder(full_data) and the
\* samplers: an empty split is fatal.
get_neighbor_finder ==
  /\ pc = "get_neighbor_finder"
  /\ IF Len(train_data.sources) = 0
       THEN Crash("DataIntegrityError: empty split")
       ELSE pc' = "run" /\ err' = err
  /\ UNCHANGED <<args, train_ops, ioV, dataV, runV, modelV, loopV, seriesV,
                 evalV, snapV, diskV, histV, monV>>

(***************************************************************************)
(* Node memory (tgn.memory).                                               *)
(***************************************************************************)
\* tgn.memory is None without --use_memory.
NoMemory == [memory |-> -1, messages |-> -1]

\* __init_memory__: zero memory vectors, no pending messages.
init_memory == [memory |-> 0, messages |-> 0]

\* A forward pass (compute_edge_probabilities) updates the memory of the
\* nodes of the batch and stores their new raw messages.
Forward(m, c) == [memory |-> c + 1, messages |-> c + 1]

UndefinedSnapshot == [defined |-> FALSE, mem |-> NoMemory, run |-> -1]

\* backup_memory: clones of memory, last_update and messages.
backup_memory(m) == m

\* Faulty variant: restore clears the pending messages instead of restoring them.
restore_memory_drops_messages(backup) ==
  [memory |-> backup.mem.memory, messages |-> 0]

\* restore_memory: the live state becomes a clone of the snapshot.
restore_memory(backup) ==
  [memory |-> backup.mem.memory, messages |-> backup.mem.messages]

Snapshot(m, run) == [defined |-> TRUE, mem |-> backup_memory(m), run |-> run]

(***************************************************************************)
(* EarlyStopMonitor                                                        *)
(***************************************************************************)
EarlyStopMonitor(max_round) ==
  [max_round |-> max_round, num_round |-> 0, epoch_count |-> 0,
   best_epoch |-> 0, has_best |-> FALSE, last_best |-> 0]

\* Faulty variant: a metric equal to the best counts as an improvement.
early_stop_check_not_strict(es, curr_val) ==
  IF ~es.has_best \/ curr_val >= es.last_best
    THEN [es EXCEPT !.has_best = TRUE, !.last_best = curr_val,
                    !.num_round = 0, !.best_epoch = es.epoch_count,
                    !.epoch_count = @ + 1]
    ELSE [es EXCEPT !.num_round = @ + 1, !.epoch_count = @ + 1]

\* The monitor after early_stop_check(curr_val).
early_stop_check(es, curr_val) ==
  IF ~es.has_best \/ curr_val > es.last_best
    THEN [es EXCEPT !.has_best = TRUE, !.last_best = curr_val,
                    !.num_round = 0, !.best_epoch = es.epoch_count,
                    !.epoch_count = @ + 1]
    ELSE [es EXCEPT !.num_round = @ + 1, !.epoch_count = @ + 1]

\* What early_stop_check returns, read off the monitor it leaves.
should_stop(es) == es.num_round >= es.max_round

(***************************************************************************)
(* Runs                                                                    *)
(***************************************************************************)
num_instance == Len(train_data.sources)

\* The RandEdgeSampler instances, made once before the run loop, and their
\* seeds (-1: unseeded).
Samplers == {"train_rand_sampler", "val_rand_sampler", "nn_val_rand_sampler",
             "test_rand_sampler", "nn_test_rand_sampler"}

Seed(sampler) ==
  CASE sampler = "train_rand_sampler" -> -1
    [] sampler = "val_rand_sampler" -> 0
    [] sampler = "nn_val_rand_sampler" -> 1
    [] sampler = "test_rand_sampler" -> 2
    [] sampler = "nn_test_rand_sampler" -> 3

\* The sampler each phase is given.
negative_edge_sampler(phase) ==
  CASE phase = "train" -> "train_rand_sampler"
    [] phase = "val" -> "val_rand_sampler"
    [] phase = "nn_val" -> "val_rand_sampler"
    [] phase = "nn_test" -> "nn_test_rand_sampler"

Use(phase) ==
  sampler_uses \cup {[sampler |-> negative_edge_sampler(phase),
                      phase |-> phase, run |-> i]}

Written(kind, id) ==
  file_writes \cup {[kind |-> kind, id |-> id, run |-> i]}

\* Faulty variant: the number of batches rounded down.
num_batch_floor == Len(train_data.sources) \div BATCH_SIZE

\* math.ceil(num_instance / BATCH_SIZE)
num_batch == (num_instance + BATCH_SIZE - 1) \div BATCH_SIZE

NoParams == [run |-> -1, epoch |-> -1, steps |-> 0]

\* The neighbor index of the filtered training split and the one of the
\* full data.
train_ngh_finder == "train"

full_ngh_finder == "full"

\* TGN(neighbor_finder=train_ngh_finder, ...)
TGN(run) ==
  [params |-> [run |-> run, epoch |-> -1, steps |-> 0],
   training |-> TRUE,
   neighbor_finder |-> train_ngh_finder,
   embedding_neighbor_finder |-> train_ngh_finder]

\* tgn.set_neighbor_finder(finder)
set_neighbor_finder(model, finder) ==
  [model EXCEPT !.neighbor_finder = finder,
                !.embedding_neighbor_finder = finder]

EmptyHist == [last_batch |-> NoMemory, train |-> NoMemory, val |-> NoMemory,
              post |-> NoMemory]

\* for i in range(args.n_runs): model, optimizer, series, monitor.
run ==
  /\ pc = "run"
  /\ IF i >= args.n_runs
       THEN /\ pc' = "done"
            /\ UNCHANGED <<runV, modelV, loopV, seriesV, evalV, histV,
                           train_ops>>
       ELSE /\ results_path' = i
            /\ train_ops' = <<>>
            /\ tgn' = TGN(i)
            /\ memory' = IF USE_MEMORY THEN init_memory ELSE NoMemory
            /\ grad_depth' = 0
            /\ val_aps' = <<>>
            /\ new_nodes_val_aps' = <<>>
            /\ epoch_times' = <<>>
            /\ total_epoch_times' = <<>>
            /\ train_losses' = <<>>
            /\ early_stopper' = EarlyStopMonitor(args.patience)
            /\ epoch' = 0
            /\ mem_ops' = <<>>
            /\ batches' = <<>>
            /\ made' = {}
            /\ restored' = {}
            /\ snap_src' = EmptyHist
            /\ ckpt_writes' = <<>>
            /\ pc' = "epoch"
            /\ UNCHANGED <<i, clock, k, j, m_loss, val_ap, thresholdOpt>>
  /\ UNCHANGED <<args, ioV, err, dataV, snapV, diskV, monV>>

\* Faulty variant: the memory is initialised once per run, not once per epoch.
epoch_memory_once_per_run ==
  IF USE_MEMORY /\ epoch = 0 THEN init_memory ELSE memory

\* if USE_MEMORY: tgn.memory.__init_memory__()
epoch_memory == IF USE_MEMORY THEN init_memory ELSE memory

\* Faulty variant: the training finder is bound in the first epoch only.
epoch_neighbor_finder_first_only ==
  IF epoch = 0 THEN train_ngh_finder ELSE tgn.embedding_neighbor_finder

\* tgn.set_neighbor_finder(train_ngh_finder) at the top of every epoch.
epoch_neighbor_finder == train_ngh_finder

\* for epoch in range(NUM_EPOCH): init memory, bind the training finder.
epoch_start ==
  /\ pc = "epoch"
  /\ IF epoch >= NUM_EPOCH
       THEN /\ pc' = "post_loop"
            /\ UNCHANGED <<tgn, memory, grad_depth, m_loss, k, mem_ops,
                           batches, train_ops>>
       ELSE /\ memory' = epoch_memory
            /\ train_ops' = <<>>
            /\ grad_depth' = IF USE_MEMORY THEN 0 ELSE grad_depth
            /\ mem_ops' = IF USE_MEMORY THEN <<"init">> ELSE <<>>
            /\ tgn' = set_neighbor_finder(tgn, epoch_neighbor_finder)
            /\ m_loss' = <<>>
            /\ k' = 0
            /\ batches' = <<>>
            /\ pc' = "group"
  /\ UNCHANGED <<args, ioV, err, dataV, runV, clock, epoch, j, seriesV, evalV,
                 snapV, diskV, made, restored, snap_src, ckpt_writes, monV>>

\* for k in range(0, num_batch, args.backprop_every): loss = 0, zero_grad.
group_start ==
  /\ pc = "group"
  /\ IF k >= num_batch
       THEN pc' = "end_train" /\ j' = j /\ train_ops' = train_ops
       ELSE /\ pc' = "batch" /\ j' = 0
            /\ train_ops' = Append(train_ops, "zero_grad")
  /\ UNCHANGED <<args, ioV, err, dataV, runV, modelV, epoch, k, m_loss,
                 seriesV, evalV, snapV, diskV, histV, monV>>

\* Faulty variant: the inner loop runs once whatever --backprop_every says.
GroupSizeOne == Min(1, args.backprop_every)

\* range(args.backprop_every): the batches of one group.
GroupSize == args.backprop_every

\* [start_idx, end_idx) of batch batch_idx
BatchSlice(batch_idx) ==
  [start |-> batch_idx * BATCH_SIZE,
   end |-> Min(num_instance, batch_idx * BATCH_SIZE + BATCH_SIZE)]

\* for j in range(args.backprop_every): one batch, or skipped past the end.
batch ==
  /\ pc = "batch"
  /\ j < GroupSize
  /\ j' = j + 1
  /\ IF k + j >= num_batch
       THEN UNCHANGED <<tgn, memory, grad_depth, clock, mem_ops, batches,
                        sampler_uses, snap_src, train_ops>>
       ELSE /\ tgn' = [tgn EXCEPT !.training = TRUE]
            /\ batches' = Append(batches, BatchSlice(k + j))
            /\ sampler_uses' = Use("train")
            /\ train_ops' = Append(train_ops, "batch")
            /\ IF USE_MEMORY
                 THEN /\ memory' = Forward(memory, clock)
                      /\ clock' = clock + 1
                      /\ grad_depth' = grad_depth + 1
                      /\ mem_ops' = Append(mem_ops, "batch")
                      /\ snap_src' = [snap_src EXCEPT
                                        !.last_batch = Forward(memory, clock)]
                 ELSE UNCHANGED <<memory, clock, grad_depth, mem_ops,
                                  snap_src>>
  /\ UNCHANGED <<args, file_writes, pc, err, dataV, runV, epoch, k, m_loss,
                 seriesV, evalV, snapV, diskV, made, restored, ckpt_writes,
                 monV>>

\* Faulty variant: the outer loop steps by one batch instead of one group.
next_group_step_one == k + 1

\* range(0, num_batch, args.backprop_every): the next group's first batch.
next_group == k + args.backprop_every

\* loss.backward(), optimizer.step(), m_loss.append, detach_memory.
backprop ==
  /\ pc = "batch"
  /\ j >= GroupSize
  /\ tgn' = [tgn EXCEPT !.params = [run |-> i, epoch |-> epoch,
                                     steps |-> @.steps + 1]]
  /\ train_ops' = train_ops \o <<"backward", "step">>
                    \o (IF USE_MEMORY THEN <<"detach">> ELSE <<>>)
  /\ m_loss' = Append(m_loss, k)
  /\ IF USE_MEMORY
       THEN grad_depth' = 0 /\ mem_ops' = Append(mem_ops, "detach")
       ELSE UNCHANGED <<grad_depth, mem_ops>>
  /\ k' = next_group
  /\ pc' = "group"
  /\ UNCHANGED <<args, ioV, err, dataV, runV, memory, clock, epoch, j, seriesV,
                 evalV, snapV, diskV, batches, made, restored, snap_src,
                 ckpt_writes, monV>>

(***************************************************************************)
(* Validation, results, early stopping                                     *)
(***************************************************************************)
APs == 1..MaxAP

UndefinedThreshold == [defined |-> FALSE, phase |-> "", epoch |-> -1, run |-> -1]

\* The optimal threshold an eval_edge_prediction call returns.
Threshold(phase) == [defined |-> TRUE, phase |-> phase, epoch |-> epoch, run |-> i]

Log(ops, op) == IF USE_MEMORY THEN Append(ops, op) ELSE ops

\* epoch_times.append, bind the full finder, backup the train memory.
end_train ==
  /\ pc = "end_train"
  /\ epoch_times' = Append(epoch_times, epoch)
  /\ tgn' = set_neighbor_finder(tgn, full_ngh_finder)
  /\ IF USE_MEMORY
       THEN /\ train_memory_backup' = Snapshot(memory, i)
            /\ made' = made \cup {Snapshot(memory, i)}
            /\ snap_src' = [snap_src EXCEPT !.train = memory]
       ELSE UNCHANGED <<train_memory_backup, made, snap_src>>
  /\ mem_ops' = Log(mem_ops, "backup:train")
  /\ pc' = "val"
  /\ UNCHANGED <<args, train_ops, ioV, err, dataV, runV, memory, grad_depth,
                 clock, loopV, val_aps, new_nodes_val_aps, train_losses,
                 total_epoch_times, evalV, val_memory_backup, diskV, batches,
                 restored, ckpt_writes, monV>>

\* eval_edge_prediction on val_data with val_rand_sampler.
validate ==
  /\ pc = "val"
  /\ \E ap \in APs : val_ap' = ap
  /\ thresholdOpt' = Threshold("val")
  /\ sampler_uses' = Use("val")
  /\ tgn' = [tgn EXCEPT !.training = FALSE]
  /\ IF USE_MEMORY
       THEN memory' = Forward(memory, clock) /\ clock' = clock + 1
       ELSE UNCHANGED <<memory, clock>>
  /\ mem_ops' = Log(mem_ops, "val")
  /\ pc' = "val_backup"
  /\ UNCHANGED <<args, train_ops, file_writes, err, dataV, runV, grad_depth,
                 loopV, seriesV, early_stopper, snapV, diskV, batches, made,
                 restored, snap_src, ckpt_writes, monV>>

\* Faulty variant: unseen validation goes on from the memory seen
\* validation left.
nn_val_memory_not_restored == memory

\* tgn.memory.restore_memory(train_memory_backup) before unseen validation.
nn_val_memory == restore_memory(train_memory_backup)

\* Backup the memory after validation, restore the memory after training.
val_backup ==
  /\ pc = "val_backup"
  /\ IF USE_MEMORY
       THEN /\ val_memory_backup' = Snapshot(memory, i)
            /\ made' = made \cup {Snapshot(memory, i)}
            /\ snap_src' = [snap_src EXCEPT !.val = memory]
            /\ memory' = nn_val_memory
            /\ restored' = restored \cup {train_memory_backup}
            /\ mem_ops' = mem_ops \o <<"backup:val", "restore:train">>
       ELSE UNCHANGED <<val_memory_backup, made, snap_src, memory, restored,
                        mem_ops>>
  /\ pc' = "nn_val"
  /\ UNCHANGED <<args, train_ops, ioV, err, dataV, runV, tgn, grad_depth,
                 clock, loopV, seriesV, evalV, train_memory_backup, diskV,
                 batches, ckpt_writes, monV>>

\* eval_edge_prediction on new_node_val_data (with val_rand_sampler).
nn_validate ==
  /\ pc = "nn_val"
  /\ thresholdOpt' = Threshold("nn_val")
  /\ sampler_uses' = Use("nn_val")
  /\ tgn' = [tgn EXCEPT !.training = FALSE]
  /\ IF USE_MEMORY
       THEN memory' = Forward(memory, clock) /\ clock' = clock + 1
       ELSE UNCHANGED <<memory, clock>>
  /\ mem_ops' = Log(mem_ops, "nn_val")
  /\ pc' = "end_epoch"
  /\ UNCHANGED <<args, train_ops, file_writes, err, dataV, runV, grad_depth,
                 loopV, seriesV, early_stopper, val_ap, snapV, diskV, batches,
                 made, restored, snap_src, ckpt_writes, monV>>

NoResults == [exists |-> FALSE, val_aps |-> <<>>, new_nodes_val_aps |-> <<>>,
              train_losses |-> <<>>, epoch_times |-> <<>>,
              total_epoch_times |-> <<>>]

\* Faulty variant: the epoch ends with the memory unseen validation left.
end_epoch_memory_not_restored == memory

\* tgn.memory.restore_memory(val_memory_backup) after unseen validation.
end_epoch_memory == restore_memory(val_memory_backup)

\* Restore the memory after validation, extend the series, pickle.dump.
end_epoch ==
  /\ pc = "end_epoch"
  /\ IF USE_MEMORY
       THEN /\ memory' = end_epoch_memory
            /\ restored' = restored \cup {val_memory_backup}
       ELSE UNCHANGED <<memory, restored>>
  /\ mem_ops' = Log(mem_ops, "restore:val")
  /\ new_nodes_val_aps' = Append(new_nodes_val_aps, epoch)
  /\ val_aps' = Append(val_aps, val_ap)
  /\ train_losses' = Append(train_losses, epoch)
  /\ results_files' =
       [results_files EXCEPT ![results_path] =
          [exists |-> TRUE, val_aps |-> val_aps',
           new_nodes_val_aps |-> new_nodes_val_aps',
           train_losses |-> train_losses', epoch_times |-> epoch_times,
           total_epoch_times |-> total_epoch_times]]
  /\ file_writes' = Written("results", results_path)
  /\ total_epoch_times' = Append(total_epoch_times, epoch)
  /\ pc' = "early_stop"
  /\ UNCHANGED <<args, train_ops, sampler_uses, err, dataV, runV, tgn,
                 grad_depth, clock, loopV, epoch_times, evalV, snapV,
                 checkpoints, model_file, batches, made, snap_src,
                 ckpt_writes, monV>>

NoCheckpoint == [exists |-> FALSE, params |-> NoParams, memory |-> -1]

\* tgn.state_dict(): the parameters, the memory tensor among them.
state_dict == [exists |-> TRUE, params |-> tgn.params, memory |-> memory.memory]

\* Faulty variant: the checkpoint path does not depend on the epoch.
get_checkpoint_path_no_epoch(e) == 0

\* get_checkpoint_path(epoch): one file per epoch number.
get_checkpoint_path(e) == e

\* early_stop_check(val_ap): load the best checkpoint and leave the loop, or
\* save this epoch's checkpoint.
early_stop ==
  /\ pc = "early_stop"
  /\ LET es == early_stop_check(early_stopper, val_ap) IN
       /\ early_stopper' = es
       /\ IF should_stop(es)
            THEN LET best == checkpoints[get_checkpoint_path(es.best_epoch)] IN
                 IF best.exists
                   THEN /\ tgn' = [tgn EXCEPT !.params = best.params,
                                              !.training = FALSE]
                        /\ memory' =
                             IF USE_MEMORY
                               THEN [memory EXCEPT !.memory = best.memory]
                               ELSE memory
                        /\ pc' = "post_loop"
                        /\ UNCHANGED <<err, checkpoints, epoch, ckpt_writes,
                                       file_writes>>
                   ELSE /\ Crash("FileNotFoundError: best checkpoint")
                        /\ UNCHANGED <<tgn, memory, checkpoints, epoch,
                                       ckpt_writes, file_writes>>
            ELSE /\ checkpoints' =
                      [checkpoints EXCEPT ![get_checkpoint_path(epoch)] =
                                            state_dict]
                 /\ ckpt_writes' =
                      Append(ckpt_writes, get_checkpoint_path(epoch))
                 /\ file_writes' =
                      Written("checkpoint", get_checkpoint_path(epoch))
                 /\ epoch' = epoch + 1
                 /\ pc' = "epoch"
                 /\ UNCHANGED <<err, tgn, memory>>
  /\ UNCHANGED <<args, train_ops, sampler_uses, dataV, runV, grad_depth,
                 clock, k, j, m_loss, seriesV, val_ap, thresholdOpt, snapV,
                 results_files, model_file, mem_ops, batches, made, restored,
                 snap_src, monV>>

(***************************************************************************)
(* After the epoch loop: test on unseen nodes, save the model              *)
(***************************************************************************)
\* Faulty variant: no backup after the loop, the last epoch's snapshot is reused.
post_loop_backup_reused == val_memory_backup

\* val_memory_backup = tgn.memory.backup_memory() after the loop.
post_loop_backup == Snapshot(memory, i)

\* Backup the memory, bind the full finder (embedding module only), restore.
post_loop ==
  /\ pc = "post_loop"
  /\ tgn' = [tgn EXCEPT !.embedding_neighbor_finder = full_ngh_finder]
  /\ IF USE_MEMORY
       THEN /\ val_memory_backup' = post_loop_backup
            /\ made' = made \cup {Snapshot(memory, i)}
            /\ snap_src' = [snap_src EXCEPT !.post = memory]
            /\ memory' = restore_memory(val_memory_backup')
            /\ restored' = restored \cup {val_memory_backup'}
            /\ mem_ops' = <<"backup:post", "restore:post">>
       ELSE UNCHANGED <<val_memory_backup, made, snap_src, memory, restored,
                        mem_ops>>
  /\ pc' = "test"
  /\ UNCHANGED <<args, train_ops, ioV, err, dataV, runV, grad_depth, clock,
                 loopV, seriesV, evalV, train_memory_backup, diskV, batches,
                 ckpt_writes, monV>>

\* eval_edge_detection on new_node_test_data with thresholdOpt.
test ==
  /\ pc = "test"
  /\ IF ~thresholdOpt.defined
       THEN /\ Crash("NameError: name 'thresholdOpt' is not defined")
            /\ UNCHANGED <<tgn, memory, clock, mem_ops, sampler_uses>>
       ELSE /\ tgn' = [tgn EXCEPT !.training = FALSE]
            /\ sampler_uses' = Use("nn_test")
            /\ IF USE_MEMORY
                 THEN memory' = Forward(memory, clock) /\ clock' = clock + 1
                 ELSE UNCHANGED <<memory, clock>>
            /\ mem_ops' = Log(mem_ops, "test")
            /\ pc' = "save"
            /\ err' = err
  /\ UNCHANGED <<args, train_ops, file_writes, dataV, runV, grad_depth, loopV,
                 seriesV, evalV, snapV, diskV, batches, made, restored,
                 snap_src, ckpt_writes, monV>>

NoModel == [exists |-> FALSE, params |-> NoParams, memory |-> NoMemory,
            run |-> -1]

\* Faulty variant: the model is saved without restoring the memory first.
save_memory_no_restore == memory

\* if USE_MEMORY: tgn.memory.restore_memory(val_memory_backup)
save_memory == IF USE_MEMORY THEN restore_memory(val_memory_backup) ELSE memory

\* Restore the memory after validation, torch.save to MODEL_SAVE_PATH.
save ==
  /\ pc = "save"
  /\ memory' = save_memory
  /\ restored' = IF USE_MEMORY THEN restored \cup {val_memory_backup}
                               ELSE restored
  /\ mem_ops' = Log(mem_ops, "restore:post")
  /\ model_file' = [exists |-> TRUE, params |-> tgn.params,
                     memory |-> memory', run |-> i]
  /\ file_writes' = Written("model", 0)
  /\ i' = i + 1
  /\ pc' = "run"
  /\ UNCHANGED <<args, train_ops, sampler_uses, err, dataV, results_path, tgn,
                 grad_depth, clock, loopV, seriesV, evalV, snapV, checkpoints,
                 results_files, batches, made, snap_src, ckpt_writes, monV>>

(***************************************************************************)
(* The monitor on its own: any sequence of metrics.                        *)
(***************************************************************************)
monitor_check ==
  /\ pc = "monitor"
  /\ Len(fed) < MonMaxCalls
  /\ \E v \in 1..MonMaxAP :
       /\ early_stopper' = early_stop_check(early_stopper, v)
       /\ fed' = Append(fed, v)
       /\ rets' = Append(rets, should_stop(early_stopper'))
  /\ UNCHANGED <<args, train_ops, ioV, pc, err, dataV, runV, modelV, loopV,
                 seriesV, val_ap, thresholdOpt, snapV, diskV, histV>>

(***************************************************************************)
(* Specifications                                                          *)
(***************************************************************************)
InitRest ==
  /\ err = ""
  /\ inductive_nodes = NoneValue
  /\ train_data = TrainSplit
  /\ i = 0
  /\ results_path = 0
  /\ tgn = [params |-> NoParams, training |-> FALSE,
            neighbor_finder |-> "", embedding_neighbor_finder |-> ""]
  /\ memory = NoMemory
  /\ grad_depth = 0
  /\ clock = 0
  /\ epoch = 0 /\ k = 0 /\ j = 0
  /\ m_loss = <<>>
  /\ val_aps = <<>> /\ new_nodes_val_aps = <<>> /\ train_losses = <<>>
  /\ epoch_times = <<>> /\ total_epoch_times = <<>>
  /\ val_ap = 0
  /\ thresholdOpt = UndefinedThreshold
  /\ train_memory_backup = UndefinedSnapshot
  /\ val_memory_backup = UndefinedSnapshot
  /\ checkpoints = [e \in 0..(MaxEpoch - 1) |-> NoCheckpoint]
  /\ results_files = [p \in ResultPaths |-> NoResults]
  /\ model_file = NoModel
  /\ mem_ops = <<>>
  /\ batches = <<>>
  /\ made = {} /\ restored = {}
  /\ ckpt_writes = <<>>
  /\ snap_src = EmptyHist
  /\ fed = <<>> /\ rets = <<>>
  /\ train_ops = <<>>
  /\ sampler_uses = {} /\ file_writes = {}

Init ==
  /\ args \in Args
  /\ pc = "compute_inductive_nodes"
  /\ early_stopper = EarlyStopMonitor(0)
  /\ InitRest

Next ==
  \/ compute_inductive_nodes
  \/ apply_inductive_experiment
  \/ get_neighbor_finder
  \/ run
  \/ epoch_start
  \/ group_start
  \/ batch
  \/ backprop
  \/ end_train
  \/ validate
  \/ val_backup
  \/ nn_validate
  \/ end_epoch
  \/ early_stop
  \/ post_loop
  \/ test
  \/ save

Spec == Init /\ [][Next]_vars

MonitorArgs == [exp |-> "absent", bs |-> 1, n_epoch |-> 0, patience |-> 0,
                n_runs |-> 1, backprop_every |-> 1, use_memory |-> FALSE]

InitMonitor ==
  /\ \E p \in 0..MonMaxPatience :
       /\ args = [MonitorArgs EXCEPT !.patience = p]
       /\ early_stopper = EarlyStopMonitor(p)
  /\ pc = "monitor"
  /\ InitRest

NextMonitor == monitor_check

SpecMonitor == InitMonitor /\ [][NextMonitor]_vars

(***************************************************************************)
(* Properties                                                              *)
(***************************************************************************)
InEpoch == pc \in {"group", "batch", "end_train", "val", "val_backup",
                   "nn_val", "end_epoch", "early_stop"}

AfterTraining == pc \in {"end_train", "val", "val_backup", "nn_val",
                         "end_epoch", "early_stop"}

AfterLoop == pc \in {"post_loop", "test", "save"}

Count(s, x) == Cardinality({n \in DOMAIN s : s[n] = x})

IsPrefix(a, b) == Len(a) <= Len(b) /\ a = SubSeq(b, 1, Len(a))

\* The least q with q * b >= a.
CeilDiv(a, b) == CHOOSE q \in 0..a : q * b >= a /\ (q = 0 \/ (q - 1) * b < a)

Repeat(x, n) == [m \in 1..n |-> x]

\* C1: with memory enabled, in every epoch init_memory has run exactly once
\* when the training batches start, and the first batch of the epoch finds
\* the memory all-zero with no pending message.
C1_MemoryZeroAtFirstBatch ==
  (USE_MEMORY /\ InEpoch) =>
     /\ Count(mem_ops, "init") = 1
     /\ mem_ops[1] = "init"
     /\ (pc \in {"group", "batch"} /\ batches = <<>>) =>
           (memory.memory = 0 /\ memory.messages = 0)

\* A later epoch is about to process its first batch, after the earlier
\* epoch's batches and evaluations stamped the memory.
C1_Witness ==
  /\ USE_MEMORY /\ pc = "batch" /\ epoch = 1 /\ j = 0 /\ batches = <<>>
  /\ clock > 0 /\ memory = init_memory

\* The memory operations of n batches in groups of g: the batches of a
\* group, then one detach.
RECURSIVE GroupOps(_, _)
GroupOps(n, g) ==
  IF n = 0 THEN <<>>
  ELSE Repeat("batch", Min(g, n)) \o <<"detach">> \o GroupOps(n - Min(g, n), g)

EpochOps ==
  <<"init">>
  \o GroupOps(CeilDiv(Len(train_data.sources), args.bs), args.backprop_every)
  \o <<"backup:train", "val", "backup:val", "restore:train", "nn_val",
       "restore:val">>

PostLoopOps == <<"backup:post", "restore:post", "test", "restore:post">>

\* C2: with memory enabled, the memory operations of an epoch are, in this
\* order and with nothing else between them: init, the batches with a detach
\* after each group, backup (train), seen validation, backup (val),
\* restore (train), unseen validation, restore (val); the test comes only
\* after the epoch loop.
C2_EpochMemoryProtocol ==
  USE_MEMORY =>
    /\ InEpoch => IsPrefix(mem_ops, EpochOps)
    /\ pc = "end_train" => mem_ops \o <<"backup:train", "val", "backup:val",
                              "restore:train", "nn_val", "restore:val">>
                            = EpochOps
    /\ pc = "val" => mem_ops[Len(mem_ops)] = "backup:train"
    /\ pc = "val_backup" => mem_ops[Len(mem_ops)] = "val"
    /\ pc = "nn_val" => mem_ops[Len(mem_ops)] = "restore:train"
    /\ pc = "end_epoch" => mem_ops[Len(mem_ops)] = "nn_val"
    /\ pc = "early_stop" => mem_ops = EpochOps
    /\ pc = "test" => mem_ops = SubSeq(PostLoopOps, 1, 2)
    /\ pc = "save" => mem_ops = SubSeq(PostLoopOps, 1, 3)
    /\ Count(mem_ops, "test") > 0 => pc \in {"save", "run", "done"}

\* A second epoch has ended whose three batches fell into a full group and
\* a shorter last one.
C2_Witness ==
  /\ USE_MEMORY /\ pc = "early_stop" /\ epoch = 1
  /\ args.backprop_every = 2 /\ Len(batches) = 3
  /\ Count(mem_ops, "detach") = 2

\* C3: with memory enabled, the memory in the saved model is the memory of
\* the snapshot taken right after the epoch loop: nothing the test did to
\* the memory is saved.
C3_SavedMemoryIsPostTrainingSnapshot ==
  (USE_MEMORY /\ pc = "run" /\ i > 0) =>
     /\ model_file.exists
     /\ model_file.memory = snap_src.post
     /\ memory = snap_src.post

\* A model was saved after an early stop, and the test had stamped the memory.
C3_Witness ==
  /\ USE_MEMORY /\ pc = "run" /\ i > 0 /\ epoch < NUM_EPOCH
  /\ model_file.exists /\ model_file.memory.memory > 0
  /\ clock > model_file.memory.memory

C5_RestoreHasEarlierBackup == restored \subseteq made

\* A run of zero epochs has restored the snapshot taken after the loop.
C5_Witness ==
  /\ USE_MEMORY /\ NUM_EPOCH = 0 /\ pc = "test"
  /\ restored # {} /\ restored \subseteq made

ExpectedBatches ==
  [b \in 1..CeilDiv(Len(train_data.sources), args.bs) |->
     [start |-> (b - 1) * args.bs,
      end |-> Min(Len(train_data.sources), b * args.bs)]]

RECURSIVE EdgesOf(_)
EdgesOf(bs) ==
  IF bs = <<>> THEN <<>>
  ELSE EdgesOf(SubSeq(bs, 1, Len(bs) - 1))
       \o [n \in 1..(bs[Len(bs)].end - bs[Len(bs)].start) |->
             bs[Len(bs)].start + n - 1]

\* C6: an epoch processes ceil(N / batch_size) batches in increasing index,
\* batch b the edges [b * batch_size, min(N, (b + 1) * batch_size)): every
\* batch has 1..batch_size edges and every edge is processed once, in order.
C6_BatchesPartitionTrainingSplit ==
  /\ InEpoch => IsPrefix(batches, ExpectedBatches)
  /\ AfterTraining =>
       /\ batches = ExpectedBatches
       /\ Len(batches) = CeilDiv(Len(train_data.sources), args.bs)
       /\ EdgesOf(batches) =
            [n \in 1..Len(train_data.sources) |-> n - 1]
  /\ InEpoch =>
       \A b \in DOMAIN batches :
          /\ batches[b].end - batches[b].start >= 1
          /\ batches[b].end - batches[b].start <= args.bs

\* Training ended with a last batch shorter than the others.
C6_Witness ==
  /\ pc = "end_train" /\ args.bs = 2 /\ Len(train_data.sources) = 3
  /\ Len(batches) = 2
  /\ batches[2] = [start |-> 2, end |-> 3]

Max(s) == CHOOSE x \in Range(s) : \A y \in Range(s) : y <= x

\* The first position of the largest metric: the last call that improved.
FirstMax(s) == CHOOSE n \in DOMAIN s : s[n] = Max(s) /\ \A m \in 1..(n - 1) : s[m] < s[n]

\* C7: a metric strictly greater than the best so far resets the counter and
\* makes the call's 0-based index the best epoch, any other call after the
\* first adds one to the counter, and the check answers true exactly when
\* the counter has reached the patience; with patience 3 the metrics
\* 0.5, 0.4, 0.3, 0.2 give false, false, false, true and best epoch 0.
C7_EarlyStopMonitor ==
  (pc = "monitor" /\ fed # <<>>) =>
     /\ early_stopper.best_epoch = FirstMax(fed) - 1
     /\ early_stopper.num_round = Len(fed) - FirstMax(fed)
     /\ early_stopper.epoch_count = Len(fed)
     /\ Len(rets) = Len(fed)
     /\ \A n \in DOMAIN fed :
          rets[n] = (n - FirstMax(SubSeq(fed, 1, n)) >= args.patience)
     /\ (args.patience = 3 /\ Len(fed) = 4 /\ fed[1] > fed[2]
          /\ fed[2] > fed[3] /\ fed[3] > fed[4]) =>
           (rets = <<FALSE, FALSE, FALSE, TRUE>>
            /\ early_stopper.best_epoch = 0)

\* Patience 3 and four falling metrics: the fourth call answers true.
C7_Witness ==
  /\ pc = "monitor" /\ args.patience = 3 /\ fed = <<4, 3, 2, 1>>
  /\ rets = <<FALSE, FALSE, FALSE, TRUE>> /\ early_stopper.best_epoch = 0

\* C8: a run of E epochs that never stops early has written the E
\* checkpoints 0..E-1 and a results file whose validation AP, new-node
\* validation AP and training loss series have E entries; an epoch that
\* signals the stop writes no checkpoint.
C8_CheckpointsAndSeries ==
  /\ (AfterLoop /\ epoch = NUM_EPOCH) =>
       /\ ckpt_writes = [e \in 1..NUM_EPOCH |-> e - 1]
       /\ \A e \in 0..(NUM_EPOCH - 1) : checkpoints[e].exists
       /\ NUM_EPOCH > 0 => results_files[results_path].exists
       /\ Len(results_files[results_path].val_aps) = NUM_EPOCH
       /\ Len(results_files[results_path].new_nodes_val_aps) = NUM_EPOCH
       /\ Len(results_files[results_path].train_losses) = NUM_EPOCH
  /\ ((AfterLoop \/ pc = "crashed") /\ epoch < NUM_EPOCH
        /\ should_stop(early_stopper) /\ early_stopper.epoch_count > 0) =>
       /\ Count(ckpt_writes, epoch) = 0
       /\ Len(ckpt_writes) = epoch

\* Two epochs ran without an early stop.
C8_Witness ==
  /\ pc = "post_loop" /\ NUM_EPOCH = 2 /\ epoch = 2
  /\ ckpt_writes = <<0, 1>>
  /\ Len(results_files[results_path].val_aps) = 2

\* An epoch signalled the stop and wrote no checkpoint.
C8_WitnessStop ==
  /\ pc = "post_loop" /\ epoch = 1 /\ NUM_EPOCH = 2 /\ ckpt_writes = <<0>>

\* C9: with the tag "None", or with no tag, the selector returns an empty
\* exclusion set, the filter keeps every training edge and the script goes
\* on to training.  (Violated: the script ends with an exception.)
C9_NoOpTagKeepsTrainingSplit ==
  args.exp \in {"None", "absent"} =>
     /\ pc # "crashed"
     /\ train_data = TrainSplit
     /\ pc # "compute_inductive_nodes" => Range(inductive_nodes.data) = {}

\* C10: the selector returns exactly floor(n * p) distinct node ids, and for
\* Exp2 and Exp3 every malicious node id is among them.  (Violated: an
\* overwritten position can repeat an id drawn at a later position.)
C10_SelectionSizeAndSensitive ==
  (args.exp \in {"Exp1", "Exp2", "Exp3"}
   /\ pc \notin {"compute_inductive_nodes", "monitor"}) =>
     /\ ~inductive_nodes.is_none
     /\ Cardinality(Range(inductive_nodes.data)) = Percent(args.exp)
     /\ args.exp \in {"Exp2", "Exp3"} =>
          Range(malicious_src_nodes) \subseteq Range(inductive_nodes.data)

\* The training split has been filtered with a tensor of node ids.
FilterApplied ==
  /\ ~inductive_nodes.is_none
  /\ \/ pc \notin {"compute_inductive_nodes", "apply_inductive_experiment",
                   "crashed", "monitor"}
     \/ pc = "crashed" /\ err = "DataIntegrityError: empty split"

\* Positions of the unfiltered split with both endpoints outside x.
Kept(x) ==
  {e \in 1..Len(TrainSplit.sources) :
     TrainSplit.sources[e] \notin x /\ TrainSplit.destinations[e] \notin x}

\* C11: the filter keeps exactly the edges whose source and destination are
\* both outside the excluded ids: no kept edge touches an excluded id, no
\* edge with both endpoints outside is dropped, the five arrays have one
\* length and position p of each describes the same original edge, and the
\* kept edges stay in their original order.
C11_FilterKeepsExactlyOutsideEdges ==
  FilterApplied =>
    LET x == Range(inductive_nodes.data)
        n == Len(train_data.sources)
    IN /\ Len(train_data.destinations) = n
       /\ Len(train_data.timestamps) = n
       /\ Len(train_data.labels) = n
       /\ Len(train_data.edge_idxs) = n
       /\ \A p \in 1..n :
            /\ train_data.sources[p] \notin x
            /\ train_data.destinations[p] \notin x
       /\ Range(train_data.edge_idxs) = Kept(x)
       /\ n = Cardinality(Kept(x))
       /\ \A p, q \in 1..n :
            p < q => train_data.edge_idxs[p] < train_data.edge_idxs[q]
       /\ \A p \in 1..n :
            LET e == train_data.edge_idxs[p]
            IN /\ train_data.sources[p] = TrainSplit.sources[e]
               /\ train_data.destinations[p] = TrainSplit.destinations[e]
               /\ train_data.timestamps[p] = TrainSplit.timestamps[e]
               /\ train_data.labels[p] = TrainSplit.labels[e]

\* Edges were dropped for their source, others for their destination only,
\* and edges on both sides of a dropped one were kept.
C11_Witness ==
  /\ FilterApplied /\ pc = "get_neighbor_finder"
  /\ Range(inductive_nodes.data) = {1}
  /\ train_data.edge_idxs = <<1, 3, 4>>

\* C12: a tag that is none of the known ones makes the selector raise
\* ("Invalid experiment name."), and the exception ends the script before a
\* model is built, a batch is processed or a checkpoint, results or model
\* file is written.
C12_UnknownTagAbortsBeforeAnything ==
  (args.exp \notin {"None", "Exp1", "Exp2", "Exp3"} /\ pc # "monitor") =>
     /\ pc \in {"compute_inductive_nodes", "crashed"}
     /\ pc = "crashed" => err = "ValueError: Invalid experiment name."
     /\ inductive_nodes = NoneValue
     /\ train_data = TrainSplit
     /\ tgn.params = NoParams
     /\ batches = <<>> /\ clock = 0
     /\ \A e \in DOMAIN checkpoints : ~checkpoints[e].exists
     /\ \A f \in DOMAIN results_files : ~results_files[f].exists
     /\ ~model_file.exists

\* The script has ended on an unknown tag.
C12_Witness ==
  /\ args.exp = "Exp4" /\ pc = "crashed"
  /\ err = "ValueError: Invalid experiment name."
  /\ args.n_epoch > 0

\* C13: every evaluation phase draws from its own seeded sampler (seen
\* validation seed 0, unseen validation seed 1, unseen test seed 3; the
\* script runs no seen test), no sampler serves two phases, and the
\* unseeded training sampler serves no evaluation.  (Violated: unseen
\* validation is given the seed-0 sampler of seen validation.)
C13_EachPhaseOwnSampler ==
  /\ \A u \in sampler_uses :
       /\ u.phase = "val" => Seed(u.sampler) = 0
       /\ u.phase = "nn_val" => Seed(u.sampler) = 1
       /\ u.phase = "nn_test" => Seed(u.sampler) = 3
       /\ u.phase # "train" => Seed(u.sampler) # -1
  /\ \A u, v \in sampler_uses : u.sampler = v.sampler => u.phase = v.phase

\* C14: two runs of one invocation share no mutable state: no checkpoint,
\* model or results file is written by two runs, and no sampler instance
\* is drawn from by two runs.  (Violated: the samplers are built once
\* before the run loop, and the checkpoint and model paths do not contain
\* the run index.)
C14_RunsShareNoState ==
  /\ \A a, b \in file_writes :
       (a.kind = b.kind /\ a.id = b.id) => a.run = b.run
  /\ \A u, v \in sampler_uses : u.sampler = v.sampler => u.run = v.run

\* C15: with memory enabled, when unseen validation starts the live memory
\* is the memory the last training batch of the epoch left: nothing seen
\* validation did to it is visible.
C15_UnseenValStartsFromTrainingMemory ==
  (USE_MEMORY /\ pc = "nn_val") =>
     /\ memory = snap_src.last_batch
     /\ memory # snap_src.val
     /\ memory.memory < snap_src.val.memory

\* Unseen validation of a second epoch is about to start, several batches
\* after the first epoch's evaluations.
C15_Witness ==
  /\ USE_MEMORY /\ pc = "nn_val" /\ epoch = 1 /\ Len(batches) > 1
  /\ memory = snap_src.last_batch
  /\ snap_src.val.memory = memory.memory + 1

\* C16: with memory enabled, when the early-stop decision is taken and the
\* checkpoint is written the live memory is the memory seen validation
\* left (what unseen validation did is discarded), and when the loop ends
\* without an early stop the snapshot taken after the loop equals the last
\* epoch's val snapshot.
C16_EpochEndsWithValMemory ==
  USE_MEMORY =>
    /\ pc = "early_stop" => memory = snap_src.val
    /\ (pc = "epoch" /\ epoch > 0) =>
          /\ memory = snap_src.val
          /\ checkpoints[get_checkpoint_path(epoch - 1)].memory
               = snap_src.val.memory
    /\ (pc \in {"test", "save"} /\ epoch = NUM_EPOCH /\ NUM_EPOCH > 0) =>
          /\ snap_src.post = snap_src.val
          /\ val_memory_backup.mem = snap_src.val

\* Two epochs ran without an early stop; the snapshot after the loop is the
\* second epoch's val snapshot, older than the unseen validation that
\* followed it.
C16_Witness ==
  /\ USE_MEMORY /\ pc = "test" /\ NUM_EPOCH = 2 /\ epoch = 2
  /\ val_memory_backup.mem = snap_src.val
  /\ clock > snap_src.val.memory
  /\ checkpoints[1].memory = snap_src.val.memory

\* The optimizer and batch steps of n batches in groups of g.
RECURSIVE GroupTrainOps(_, _)
GroupTrainOps(n, g) ==
  IF n = 0 THEN <<>>
  ELSE <<"zero_grad">> \o Repeat("batch", Min(g, n)) \o <<"backward", "step">>
       \o (IF USE_MEMORY THEN <<"detach">> ELSE <<>>)
       \o GroupTrainOps(n - Min(g, n), g)

ExpectedTrainOps ==
  GroupTrainOps(CeilDiv(Len(train_data.sources), args.bs), args.backprop_every)

\* C17: the batches of an epoch fall into ceil(num_batch / backprop_every)
\* groups of consecutive batches, the last one possibly shorter; each group
\* is: one zero_grad, its batches, one backward and one optimizer step, and
\* with memory enabled one detach after the step and before the next
\* group's first batch; no step or detach falls between two batches of a
\* group.
C17_GradientAccumulationGroups ==
  /\ InEpoch => IsPrefix(train_ops, ExpectedTrainOps)
  /\ AfterTraining =>
       /\ train_ops = ExpectedTrainOps
       /\ Count(train_ops, "step")
            = CeilDiv(CeilDiv(Len(train_data.sources), args.bs),
                      args.backprop_every)
       /\ Count(train_ops, "zero_grad") = Count(train_ops, "step")
       /\ Count(train_ops, "backward") = Count(train_ops, "step")
       /\ Count(train_ops, "detach")
            = (IF USE_MEMORY THEN Count(train_ops, "step") ELSE 0)
       /\ Len(m_loss) = Count(train_ops, "step")
  /\ InEpoch => grad_depth <= args.backprop_every

\* Three batches in groups of two: a full group and a shorter last one, each
\* closed by one step and one detach.
C17_Witness ==
  /\ USE_MEMORY /\ pc = "end_train" /\ args.backprop_every = 2
  /\ train_ops = <<"zero_grad", "batch", "batch", "backward", "step",
                   "detach", "zero_grad", "batch", "backward", "step",
                   "detach">>

Bound(finder) ==
  /\ tgn.neighbor_finder = finder
  /\ tgn.embedding_neighbor_finder = finder

\* C18: every training batch of every epoch of every run is processed with
\* the model bound to the training neighbor finder, and every evaluation
\* (seen validation, unseen validation, unseen test) with the model bound
\* to the full one.
C18_NeighborFinderBinding ==
  /\ pc \in {"group", "batch"} => Bound(train_ngh_finder)
  /\ pc \in {"val", "nn_val"} => Bound(full_ngh_finder)
  /\ (pc = "test" /\ thresholdOpt.defined) => Bound(full_ngh_finder)

\* A batch of a second epoch, after the first epoch's evaluations ran on the
\* full finder, in a second run.
C18_Witness ==
  /\ pc = "batch" /\ epoch = 1 /\ i = 1 /\ j = 0
  /\ Bound(train_ngh_finder)
  /\ \E u \in sampler_uses : u.phase = "nn_val" /\ u.run = i

\* C19: the threshold the unseen test is given is the one seen validation
\* of the last executed epoch of the run returned; no phase between that
\* validation and the test changes it.  (Violated: unseen validation
\* assigns thresholdOpt too.)
C19_TestThresholdFromSeenValidation ==
  (pc = "test" /\ thresholdOpt.defined) =>
     /\ thresholdOpt.phase = "val"
     /\ thresholdOpt.run = i
     /\ thresholdOpt.epoch = early_stopper.epoch_count - 1

\* C20: for every patience, 0 included, when the monitor signals the stop
\* the checkpoint of its best epoch has been written earlier in the same
\* run, so the load never refers to a checkpoint this run did not write.
\* (Violated: with patience 0 the first epoch signals the stop and names
\* itself as the best epoch, before any checkpoint is written.)
C20_BestCheckpointWrittenBeforeStop ==
  (pc \in {"post_loop", "test", "save", "crashed"}
   /\ early_stopper.epoch_count > 0 /\ should_stop(early_stopper)) =>
     /\ Count(ckpt_writes, get_checkpoint_path(early_stopper.best_epoch)) > 0
     /\ err # "FileNotFoundError: best checkpoint"

\* C21: the results file written at the end of epoch e holds e + 1 entries
\* in each of its series: validation AP, new-node validation AP, training
\* loss, epoch time and total epoch time.  (Violated: the total time of the
\* epoch is appended after the dump.)
C21_ResultsSeriesLengths ==
  pc = "early_stop" =>
    LET f == results_files[results_path]
    IN /\ f.exists
       /\ Len(f.val_aps) = epoch + 1
       /\ Len(f.new_nodes_val_aps) = epoch + 1
       /\ Len(f.train_losses) = epoch + 1
       /\ Len(f.epoch_times) = epoch + 1
       /\ Len(f.total_epoch_times) = epoch + 1

\* C22: in the test the model parameters and the threshold come from the
\* same epoch of the same run: after an early stop has loaded the best
\* epoch's checkpoint, the threshold is the one computed in that epoch.
\* (Violated: the threshold stays the one of the epoch that signalled the
\* stop.)
C22_ParamsAndThresholdSameEpoch ==
  (pc = "test" /\ thresholdOpt.defined) =>
     /\ tgn.params.run = thresholdOpt.run
     /\ tgn.params.epoch = thresholdOpt.epoch

====
